---- MODULE Spec2Model ----
(***************************************************************************)
(* Verifiable Completion Contracts (VCC): the convergence loop of the      *)
(* README ("Run Until Correct"), and specIntegrityPass and the universal   *)
(* validators of spec-integrity-and-universal-validators.ts.               *)
(***************************************************************************)
EXTENDS Integers, Sequences, FiniteSets, TLC

(* ------------------------------ bounds -------------------------------- *)

\* largest maxIterations a contract configures
MaxIter == 4
\* largest stagnationWindow a contract configures
MaxWindow == 2
\* aggregate quality scores range over 0..MaxScore
MaxScore == 1

(* ------------------------------ values -------------------------------- *)

\* an optional property: Unset when it is not set, Some(v) when it holds v
Unset == <<>>

Some(v) == <<v>>

IsSet(o) == Len(o) > 0

ValueOf(o) == o[1]

\* ValidationResult.status
Statuses == {"pass", "fail", "skip"}

\* the acceptance criteria of the contract the engine runs on
Criteria == {"AC-1", "AC-2", "AC-3"}

\* their severities: two MUST criteria and one that is SHOULD or MAY
Acceptance ==
  {[c \in Criteria |-> IF c = "AC-3" THEN s ELSE "must"] : s \in {"should", "may"}}

\* ResourceConstraints: every field optional; time and cost limits are
\* recorded as configured or not (the loop never reads their value)
\* `present` is FALSE for a contract without resourceConstraints
ResourceConstraints ==
  [present          : {TRUE},
   maxIterations    : {Unset} \cup {Some(n) : n \in 0..MaxIter},
   maxTimeMs        : {Unset, Some("configured")},
   maxCostUsd       : {Unset, Some("configured")},
   stagnationWindow : 1..MaxWindow]

NoResourceConstraints ==
  [present |-> FALSE, maxIterations |-> Unset, maxTimeMs |-> Unset,
   maxCostUsd |-> Unset, stagnationWindow |-> 1]

\* what one evaluation of the current outputs yields: a verdict per
\* criterion and the aggregate quality score
Outputs == [results : [Criteria -> Statuses], score : 0..MaxScore]

(* ------------------------------ state --------------------------------- *)

VARIABLES
  severityOf,          \* spec.acceptance: the severity of each criterion
  resourceConstraints, \* spec.resourceConstraints
  run,                 \* the run: loop counter t, verdict, failing, history
  twin,                \* the same run with every quality score replaced by 0
  exhausted,           \* [time, cost]: elapsed >= maxTimeMs, cost >= maxCostUsd
  lastEval,            \* non-MUST failures and score movement of the last pass
  call,                \* the arguments of a specIntegrityPass call
  outcome,             \* what that call threw or returned
  rerun,               \* what a second call on the returned contract gave
  callerSpec,          \* the caller's contract object, as it is now
  store,               \* ctx.artifacts: artifact texts and evidence records
  pass                 \* the evaluation pass of the current iteration

engineVars == <<severityOf, resourceConstraints, run, twin, exhausted, lastEval>>

integrityVars == <<call, outcome, rerun, callerSpec>>

validationVars == <<store, pass>>

vars == <<engineVars, integrityVars, validationVars>>

\* no specIntegrityPass call is under way
NoCall == [made |-> FALSE]

NoOutcome == [kind |-> "none", issues |-> <<>>, spec |-> Unset]

\* no artifact store is in use
NoStore == [inUse |-> FALSE]

\* no evaluation pass has started
NoPass == [started |-> FALSE]

(* --------------------------- the engine ------------------------------- *)

\* evaluateMustCriteria(spec, outputs): the MUST criteria whose verdict is fail
evaluateMustCriteria(outputs) ==
  {c \in Criteria : severityOf[c] = "must" /\ outputs.results[c] = "fail"}

\* failing SHOULD / MAY criteria (logged, non-blocking)
failingNonMust(outputs) ==
  {c \in Criteria : severityOf[c] # "must" /\ outputs.results[c] = "fail"}

\* the set has shrunk: fewer elements, or an element was removed
Shrunk(current, earlier) ==
  Cardinality(current) < Cardinality(earlier) \/ (earlier \ current) # {}

\* isStagnant(failing, history): history holds the snapshots of the earlier
\* iterations; the current set is compared with the one stagnationWindow
\* iterations ago, once history has that many entries
isStagnant(failing, history) ==
  LET W == resourceConstraints.stagnationWindow IN
  /\ Len(history) >= W
  /\ ~Shrunk(failing, history[Len(history) - W + 1].failingMust)

\* the snapshot appended to the run history when the loop goes on
Snapshot(iteration, failing) == [iteration |-> iteration, failingMust |-> failing]

SuccessTestLax(failing) == Cardinality(failing) <= 1

\* failing.length === 0
SuccessTest(failing) == Cardinality(failing) = 0

LoopTestOffByOne(t) ==
  /\ IsSet(resourceConstraints.maxIterations)
  /\ t <= ValueOf(resourceConstraints.maxIterations)

\* t < spec.resourceConstraints.maxIterations (false for an unset limit)
LoopTest(t) ==
  /\ IsSet(resourceConstraints.maxIterations)
  /\ t < ValueOf(resourceConstraints.maxIterations)

\* mutant: resource exhaustion is tested before success
LoopBodyExhaustionFirst(r, outputs) ==
  LET failing == evaluateMustCriteria(outputs)
      it == r.t + 1
      base == [r EXCEPT !.iteration = it, !.failing = failing, !.score = outputs.score] IN
  IF exhausted.time \/ exhausted.cost \/ it >= ValueOf(resourceConstraints.maxIterations)
  THEN [base EXCEPT !.status = "FAILURE", !.reason = "max_passes"]
  ELSE IF SuccessTest(failing)
  THEN [base EXCEPT !.status = "SUCCESS", !.reason = "criteria_satisfied"]
  ELSE IF isStagnant(failing, r.history)
  THEN [base EXCEPT !.status = "FAILURE", !.reason = "stagnant"]
  ELSE [base EXCEPT !.t = r.t + 1, !.history = Append(r.history, Snapshot(it, failing))]

\* mutant: the stagnation test is left out
LoopBodyNoStagnation(r, outputs) ==
  LET failing == evaluateMustCriteria(outputs)
      it == r.t + 1
      base == [r EXCEPT !.iteration = it, !.failing = failing, !.score = outputs.score] IN
  IF SuccessTest(failing)
  THEN [base EXCEPT !.status = "SUCCESS", !.reason = "criteria_satisfied"]
  ELSE [base EXCEPT !.t = r.t + 1, !.history = Append(r.history, Snapshot(it, failing))]

\* mutant: a rising quality score counts as progress
LoopBodyScoreProgress(r, outputs) ==
  LET failing == evaluateMustCriteria(outputs)
      it == r.t + 1
      base == [r EXCEPT !.iteration = it, !.failing = failing, !.score = outputs.score] IN
  IF SuccessTest(failing)
  THEN [base EXCEPT !.status = "SUCCESS", !.reason = "criteria_satisfied"]
  ELSE IF isStagnant(failing, r.history) /\ ~(outputs.score > r.score)
  THEN [base EXCEPT !.status = "FAILURE", !.reason = "stagnant"]
  ELSE [base EXCEPT !.t = r.t + 1, !.history = Append(r.history, Snapshot(it, failing))]

\* mutant: the snapshot is appended in every iteration, the one that ends
\* the run included
LoopBodyOnSnapshotAlways(r, failing, score) ==
  LET it == r.t + 1
      base == [r EXCEPT !.iteration = it, !.failing = failing, !.score = score,
                        !.history = Append(r.history, Snapshot(it, failing))] IN
  IF SuccessTest(failing)
  THEN [base EXCEPT !.status = "SUCCESS", !.reason = "criteria_satisfied"]
  ELSE IF isStagnant(failing, r.history)
  THEN [base EXCEPT !.status = "FAILURE", !.reason = "stagnant"]
  ELSE [base EXCEPT !.t = r.t + 1]

\* one pass of the loop body on the failing-MUST set of this iteration
LoopBodyOn(r, failing, score) ==
  LET it == r.t + 1
      base == [r EXCEPT !.iteration = it, !.failing = failing, !.score = score] IN
  IF SuccessTest(failing)
  THEN [base EXCEPT !.status = "SUCCESS", !.reason = "criteria_satisfied"]
  ELSE IF isStagnant(failing, r.history)
  THEN [base EXCEPT !.status = "FAILURE", !.reason = "stagnant"]
  ELSE [base EXCEPT !.t = r.t + 1, !.history = Append(r.history, Snapshot(it, failing))]

\* one pass through the loop body:
\*   const failing = await evaluateMustCriteria(spec, outputs);
\*   if (failing.length === 0) return SUCCESS;
\*   if (isStagnant(failing, history)) return FAILURE;
\*   outputs = await refine(outputs, failing);        (and t++)
LoopBody(r, outputs) ==
  LoopBodyOn(r, evaluateMustCriteria(outputs), outputs.score)

\* the loop is left because its test fails: return FAILURE
LoopExit(r) == [r EXCEPT !.status = "FAILURE", !.reason = "max_passes"]

\* spec.resourceConstraints.maxIterations with resourceConstraints absent:
\* reading a property of undefined throws a TypeError out of the loop
LoopThrow(r) == [r EXCEPT !.status = "TypeError", !.reason = "exception"]

\* one round of the for loop for a run that is still going
RunStep(r, outputs) ==
  IF r.status # "RUNNING" THEN r
  ELSE IF ~resourceConstraints.present THEN LoopThrow(r)
  ELSE IF LoopTest(r.t) THEN LoopBody(r, outputs)
  ELSE LoopExit(r)

\* the outputs as the twin run sees them: same verdicts, score 0
Unscored(outputs) == [outputs EXCEPT !.score = 0]

InitialRun ==
  [t |-> 0, iteration |-> 0, status |-> "RUNNING", reason |-> "none",
   failing |-> {}, history |-> <<>>, score |-> 0]

EngineInit ==
  /\ severityOf \in Acceptance
  /\ resourceConstraints \in {NoResourceConstraints} \cup ResourceConstraints
  /\ run = InitialRun
  /\ twin = InitialRun
  /\ exhausted = [time |-> FALSE, cost |-> FALSE]
  /\ lastEval = [failingNonMust |-> {}, scoreImproved |-> FALSE]
  /\ call = NoCall
  /\ outcome = NoOutcome
  /\ rerun = NoOutcome
  /\ callerSpec = NoCall
  /\ store = NoStore
  /\ pass = NoPass

\* while the run goes on, elapsed time or cost reaches its configured
\* limit; a limit once reached stays reached
ReachLimit ==
  /\ run.status = "RUNNING"
  /\ \/ /\ IsSet(resourceConstraints.maxTimeMs)
        /\ ~exhausted.time
        /\ exhausted' = [exhausted EXCEPT !.time = TRUE]
     \/ /\ IsSet(resourceConstraints.maxCostUsd)
        /\ ~exhausted.cost
        /\ exhausted' = [exhausted EXCEPT !.cost = TRUE]
  /\ UNCHANGED <<severityOf, resourceConstraints, run, twin, lastEval, integrityVars, validationVars>>

\* one iteration of the loop: the run and its twin evaluate the same verdicts
\* and return SUCCESS, return FAILURE (stagnant), or refine and go on
Iterate ==
  /\ run.status = "RUNNING"
  /\ resourceConstraints.present
  /\ LoopTest(run.t)
  /\ \E outputs \in Outputs :
       /\ run' = RunStep(run, outputs)
       /\ twin' = RunStep(twin, Unscored(outputs))
       /\ lastEval' = [failingNonMust |-> failingNonMust(outputs),
                       scoreImproved  |-> run.iteration >= 1 /\ outputs.score > run.score]
  /\ UNCHANGED <<severityOf, resourceConstraints, exhausted, integrityVars, validationVars>>

\* the verdicts are not read when the loop test fails or throws
NoOutputs == [results |-> [c \in Criteria |-> "skip"], score |-> 0]

\* the loop test fails: return FAILURE after the loop
ExitLoop ==
  /\ run.status = "RUNNING"
  /\ resourceConstraints.present
  /\ ~LoopTest(run.t)
  /\ run' = RunStep(run, NoOutputs)
  /\ twin' = RunStep(twin, NoOutputs)
  /\ UNCHANGED <<severityOf, resourceConstraints, exhausted, lastEval, integrityVars, validationVars>>

\* the contract has no resourceConstraints: the loop test throws
ThrowTypeError ==
  /\ run.status = "RUNNING"
  /\ ~resourceConstraints.present
  /\ run' = RunStep(run, NoOutputs)
  /\ twin' = RunStep(twin, NoOutputs)
  /\ UNCHANGED <<severityOf, resourceConstraints, exhausted, lastEval, integrityVars, validationVars>>

Init == EngineInit

Next ==
  \/ Iterate
  \/ ExitLoop
  \/ ThrowTypeError
  \/ ReachLimit

Spec == Init /\ [][Next]_vars

(* ---------------------- specIntegrityPass ----------------------------- *)

\* most artifacts a contract declares
MaxArtifacts == 2
\* most acceptance criteria a contract declares
MaxCriteria == 1

\* spec.vccVersion the pass accepts
SupportedVersion == "sdlaf.vcc/v1"

\* IntegrityIssue; `at` is the pair of array indexes of its path (0 if none)
Issue(severity, code, i, j) ==
  [severity |-> severity, code |-> code, at |-> <<i, j>>]

\* the issues F(1) .. F(n) of a for loop, in order
ConcatFor(n, F(_)) ==
  LET acc[i \in 0..n] == IF i = 0 THEN <<>> ELSE acc[i - 1] \o F(i) IN acc[n]

\* the elements of a sequence, as a set
Range(seq) == {seq[i] : i \in 1..Len(seq)}

\* xs.filter(P), in order
FilterSeq(seq, P(_)) == ConcatFor(Len(seq), LAMBDA i : IF P(seq[i]) THEN <<seq[i]>> ELSE <<>>)

\* artifactIdSet after the artifact loop: the ids that are present
ArtifactIdSet(spec) == {a.artifactId : a \in Range(spec.artifacts)} \ {""}

\* the artifact loop: id present and unique, formats non-empty, owners
ArtifactIssues(spec) ==
  ConcatFor(Len(spec.artifacts), LAMBDA i :
    LET a == spec.artifacts[i] IN
    IF a.artifactId = ""
    THEN <<Issue("error", "ARTIFACT_ID_MISSING", i - 1, 0)>>
    ELSE (IF \E k \in 1..(i - 1) : spec.artifacts[k].artifactId = a.artifactId
          THEN <<Issue("error", "ARTIFACT_ID_DUPLICATE", i - 1, 0)>> ELSE <<>>)
         \o (IF Len(a.formats) = 0
             THEN <<Issue("error", "ARTIFACT_FORMATS_EMPTY", i - 1, 0)>> ELSE <<>>)
         \o (IF Len(a.owners) = 0
             THEN <<Issue("warning", "ARTIFACT_OWNERS_EMPTY", i - 1, 0)>> ELSE <<>>))

\* every dependsOn reference names a declared artifact
DependsOnIssues(spec) ==
  ConcatFor(Len(spec.artifacts), LAMBDA i :
    ConcatFor(Len(spec.artifacts[i].dependsOn), LAMBDA j :
      IF spec.artifacts[i].dependsOn[j] \notin ArtifactIdSet(spec)
      THEN <<Issue("error", "ARTIFACT_DEP_MISSING", i - 1, j - 1)>> ELSE <<>>))

\* mutant: packaging inputs are not checked
PackagingIssuesUnchecked(spec) == <<>>

\* every packaging input names a declared artifact
PackagingIssues(spec) ==
  ConcatFor(Len(spec.packaging), LAMBDA i :
    ConcatFor(Len(spec.packaging[i].inputs), LAMBDA j :
      IF spec.packaging[i].inputs[j] \notin ArtifactIdSet(spec)
      THEN <<Issue("error", "PACKAGING_INPUT_MISSING", i - 1, j - 1)>> ELSE <<>>))

\* acId unique, every target names a declared artifact
AcceptanceIssues(spec) ==
  ConcatFor(Len(spec.acceptance), LAMBDA i :
    LET ac == spec.acceptance[i] IN
    (IF \E k \in 1..(i - 1) : spec.acceptance[k].acId = ac.acId
     THEN <<Issue("error", "AC_ID_DUPLICATE", i - 1, 0)>> ELSE <<>>)
    \o ConcatFor(Len(ac.targetArtifacts), LAMBDA j :
         IF ac.targetArtifacts[j] \notin ArtifactIdSet(spec)
         THEN <<Issue("error", "AC_TARGET_MISSING", i - 1, j - 1)>> ELSE <<>>))

\* rubricSet: the rubrics the contract declares ([] when rubrics is absent)
RubricSet(spec) == {r.rubricId : r \in Range(spec.rubrics)}

\* every rubricRef of a criterion names a declared rubric
RubricRefIssues(spec) ==
  ConcatFor(Len(spec.acceptance), LAMBDA i :
    LET rubricRef == spec.acceptance[i].rule.rubricRef IN
    IF rubricRef # "" /\ rubricRef \notin RubricSet(spec)
    THEN <<Issue("error", "RUBRIC_REF_MISSING", i - 1, 0)>> ELSE <<>>)

\* every rubricId of a gate approval names a declared rubric
GateIssues(spec) ==
  ConcatFor(Len(spec.gates), LAMBDA i :
    ConcatFor(Len(spec.gates[i].requiredApprovals), LAMBDA j :
      LET ra == spec.gates[i].requiredApprovals[j] IN
      IF ra.rubricId # "" /\ ra.rubricId \notin RubricSet(spec)
      THEN <<Issue("error", "GATE_RUBRIC_REF_MISSING", i - 1, j - 1)>> ELSE <<>>))

\* owners outside a non-empty team roster: a warning
TeamIssues(spec, ctx) ==
  ConcatFor(Len(spec.artifacts), LAMBDA i :
    ConcatFor(Len(spec.artifacts[i].owners), LAMBDA j :
      IF ctx.team # {} /\ spec.artifacts[i].owners[j] \notin ctx.team
      THEN <<Issue("warning", "ROLE_NOT_IN_TEAM", i - 1, j - 1)>> ELSE <<>>))

\* a rule payload with nothing set
EmptyRule ==
  [adapter |-> "", rubricRef |-> "", requiredSections |-> <<>>,
   hasRequire |-> FALSE, require |-> <<>>, minCitationCoverage |-> FALSE,
   passThreshold |-> Unset, jsonSchema |-> ""]

DefaultRubric(id) == [rubricId |-> id, passThreshold |-> "4"]

\* mutant: the default rubrics are appended without looking at the ids
injectDefaultRubricsBlind(rubrics) ==
  rubrics \o <<DefaultRubric("RUBRIC-OVERALL-v1"), DefaultRubric("RUBRIC-CLARITY-v1")>>

\* injectDefaultRubrics: by id, when not yet declared
injectDefaultRubrics(rubrics) ==
  rubrics
  \o (IF "RUBRIC-OVERALL-v1" \in {r.rubricId : r \in Range(rubrics)}
      THEN <<>> ELSE <<DefaultRubric("RUBRIC-OVERALL-v1")>>)
  \o (IF "RUBRIC-CLARITY-v1" \in {r.rubricId : r \in Range(rubrics)}
      THEN <<>> ELSE <<DefaultRubric("RUBRIC-CLARITY-v1")>>)

\* k.includes("spec") || st.includes("requirements") || st.includes("protocol")
LooksLikeSpec(a) ==
  a.kind \in {"spec", "specification"} \/ a.subtype \in {"requirements", "protocol"}

\* mediaType.startsWith("text/") || mediaType.includes("markdown")
IsNarrativeFormat(mediaType) == mediaType \in {"text/markdown", "text/plain"}

Ids(artifacts) == [i \in 1..Len(artifacts) |-> artifacts[i].artifactId]

findLikelySpecArtifacts(spec) ==
  LET required == FilterSeq(spec.artifacts, LAMBDA a : a.required)
      ids == Ids(FilterSeq(required, LooksLikeSpec)) IN
  IF Len(required) = 0 THEN <<spec.artifacts[1].artifactId>>
  ELSE IF Len(ids) > 0 THEN ids ELSE <<required[1].artifactId>>

findNarrativeArtifacts(spec) ==
  LET required == FilterSeq(spec.artifacts, LAMBDA a : a.required)
      ids == Ids(FilterSeq(required,
               LAMBDA a : \E f \in Range(a.formats) : IsNarrativeFormat(f))) IN
  IF Len(required) = 0 THEN <<spec.artifacts[1].artifactId>>
  ELSE IF Len(ids) > 0 THEN ids ELSE Ids(required)

\* mutant: the four universal criteria are appended whatever is declared
injectDefaultAcceptanceAlways(spec) ==
  spec.acceptance
  \o <<[acId |-> "AC-UNIV-STRUCT-1", targetArtifacts |-> findLikelySpecArtifacts(spec),
        type |-> "structure", severity |-> "must",
        rule |-> [EmptyRule EXCEPT !.requiredSections =
                    <<"Scope", "Assumptions", "Risks", "Acceptance Criteria">>]],
       [acId |-> "AC-UNIV-TRACE-1", targetArtifacts |-> findNarrativeArtifacts(spec),
        type |-> "traceability", severity |-> "should",
        rule |-> [EmptyRule EXCEPT !.minCitationCoverage = TRUE]],
       [acId |-> "AC-UNIV-CONSIST-1",
        targetArtifacts |-> Ids(FilterSeq(spec.artifacts, LAMBDA a : a.required)),
        type |-> "consistency", severity |-> "should", rule |-> EmptyRule],
       [acId |-> "AC-UNIV-PROV-1",
        targetArtifacts |->
          ConcatFor(Len(spec.packaging), LAMBDA i : spec.packaging[i].inputs),
        type |-> "provenance", severity |-> "must",
        rule |-> [EmptyRule EXCEPT !.hasRequire = TRUE,
                                   !.require = spec.provenancePolicy.require]]>>

\* injectDefaultAcceptance: the four universal criteria, by acId, when not
\* yet declared
injectDefaultAcceptance(spec) ==
  LET existing == {ac.acId : ac \in Range(spec.acceptance)} IN
  spec.acceptance
  \o (IF "AC-UNIV-STRUCT-1" \in existing THEN <<>> ELSE
      <<[acId |-> "AC-UNIV-STRUCT-1", targetArtifacts |-> findLikelySpecArtifacts(spec),
         type |-> "structure", severity |-> "must",
         rule |-> [EmptyRule EXCEPT !.requiredSections =
                     <<"Scope", "Assumptions", "Risks", "Acceptance Criteria">>]]>>)
  \o (IF "AC-UNIV-TRACE-1" \in existing THEN <<>> ELSE
      <<[acId |-> "AC-UNIV-TRACE-1", targetArtifacts |-> findNarrativeArtifacts(spec),
         type |-> "traceability", severity |-> "should",
         rule |-> [EmptyRule EXCEPT !.minCitationCoverage = TRUE]]>>)
  \o (IF "AC-UNIV-CONSIST-1" \in existing THEN <<>> ELSE
      <<[acId |-> "AC-UNIV-CONSIST-1",
         targetArtifacts |-> Ids(FilterSeq(spec.artifacts, LAMBDA a : a.required)),
         type |-> "consistency", severity |-> "should", rule |-> EmptyRule]>>)
  \o (IF "AC-UNIV-PROV-1" \in existing THEN <<>> ELSE
      <<[acId |-> "AC-UNIV-PROV-1",
         targetArtifacts |->
           ConcatFor(Len(spec.packaging), LAMBDA i : spec.packaging[i].inputs),
         type |-> "provenance", severity |-> "must",
         rule |-> [EmptyRule EXCEPT !.hasRequire = TRUE,
                                    !.require = spec.provenancePolicy.require]]>>)

\* the copy after the injection step
Injected(spec, opts) ==
  IF (IF IsSet(opts.injectUniversalDefaults)
      THEN ValueOf(opts.injectUniversalDefaults) ELSE TRUE)
  THEN [spec EXCEPT !.rubrics = injectDefaultRubrics(spec.rubrics),
                    !.acceptance = injectDefaultAcceptance(spec)]
  ELSE spec

\* v.canValidate(ac, spec, ctx): "true", "false" or "throws"
canValidate(v, ac, spec, ctx) ==
  CASE v.canValidate = "structure.requiredSections" ->
         IF Len(ac.rule.requiredSections) > 0 THEN "true" ELSE "false"
    [] v.canValidate = "traceability.citationCoverage" ->
         IF ac.rule.minCitationCoverage THEN "true" ELSE "false"
    [] v.canValidate = "consistency.simpleCrossCheck" -> "true"
    [] v.canValidate = "provenance.requiredFields" ->
         IF ac.rule.hasRequire /\ ctx.provenanceSignals THEN "true" ELSE "false"
    [] v.canValidate = "rubric.aiJudge" ->
         IF ac.rule.rubricRef # "" /\ ac.rule.rubricRef \in RubricSet(spec)
         THEN "true" ELSE "false"
    [] v.canValidate = "schema.jsonSchema" ->
         IF ac.rule.jsonSchema # "" THEN "true" ELSE "false"
    [] OTHER -> v.canValidate

\* spec.acceptance.findIndex(x => x.acId === ac.acId), 0-based
FindIndex(acceptance, acId) ==
  (CHOOSE i \in 1..Len(acceptance) :
     /\ acceptance[i].acId = acId
     /\ \A k \in 1..(i - 1) : acceptance[k].acId # acId) - 1

\* mutant: a canValidate that throws ends the search through the candidates
CoverageIssueStopsAtThrow(ac, spec, ctx, registry) ==
  LET candidates == FilterSeq(registry, LAMBDA v : ac.type \in v.supportedTypes)
      at == FindIndex(spec.acceptance, ac.acId) IN
  IF ac.rule.adapter # ""
  THEN (IF \E v \in Range(registry) : v.id = ac.rule.adapter THEN <<>>
        ELSE <<Issue("error", "EXPLICIT_VALIDATOR_MISSING", at, 0)>>)
  ELSE IF Len(candidates) = 0
  THEN <<Issue("error", "NO_VALIDATOR_FOR_TYPE", at, 0)>>
  ELSE IF \E i \in 1..Len(candidates) :
            /\ canValidate(candidates[i], ac, spec, ctx) = "true"
            /\ \A k \in 1..(i - 1) : canValidate(candidates[k], ac, spec, ctx) # "throws"
  THEN <<>>
  ELSE <<Issue("error", "UNVERIFIABLE_MUST", at, 0)>>

\* the body of the MUST-coverage loop for one MUST criterion
CoverageIssue(ac, spec, ctx, registry) ==
  LET candidates == FilterSeq(registry, LAMBDA v : ac.type \in v.supportedTypes)
      at == FindIndex(spec.acceptance, ac.acId) IN
  IF ac.rule.adapter # ""
  THEN (IF \E v \in Range(registry) : v.id = ac.rule.adapter THEN <<>>
        ELSE <<Issue("error", "EXPLICIT_VALIDATOR_MISSING", at, 0)>>)
  ELSE IF Len(candidates) = 0
  THEN <<Issue("error", "NO_VALIDATOR_FOR_TYPE", at, 0)>>
  ELSE IF \E v \in Range(candidates) : canValidate(v, ac, spec, ctx) = "true"
  THEN <<>>
  ELSE <<Issue("error", "UNVERIFIABLE_MUST", at, 0)>>

\* the MUST-coverage step over the copy after injection
CoverageIssues(spec, ctx, registry, opts) ==
  IF (IF IsSet(opts.requireMustCoverage)
      THEN ValueOf(opts.requireMustCoverage) ELSE TRUE)
  THEN ConcatFor(Len(spec.acceptance), LAMBDA i :
         IF spec.acceptance[i].severity = "must"
         THEN CoverageIssue(spec.acceptance[i], spec, ctx, registry) ELSE <<>>)
  ELSE <<>>

Thrown(issues) == [kind |-> "thrown", issues |-> issues, spec |-> Unset]

Returned(spec, issues) == [kind |-> "returned", issues |-> issues, spec |-> Some(spec)]

\* the call ended with a TypeError: no issue list reaches the caller
TypeErrorThrown == [kind |-> "typeError", issues |-> <<>>, spec |-> Unset]

\* JSON.parse(JSON.stringify(x)) of a contract: strings, booleans and arrays
\* come back as they are, a Date inside `intent` comes back as its ISO string
JsonRoundTrip(x) == [x EXCEPT !.intent = IF @ = "Date" THEN "string" ELSE @]

\* mutant: the pass works on the caller's object itself
deepCloneSameObject(x) == [value |-> x, aliased |-> TRUE]

\* deepClone(x): a new object graph holding the round-tripped value; it
\* shares no object with x
deepClone(x) == [value |-> JsonRoundTrip(x), aliased |-> FALSE]

\* !spec.artifacts || spec.artifacts.length === 0
ArtifactsEmpty(spec) == ~spec.hasArtifacts \/ Len(spec.artifacts) = 0

\* mutant: a contract without artifacts only draws a warning
specIntegrityPassEmptyWarns(inputSpec, ctx, registry, opts) ==
  IF ArtifactsEmpty(inputSpec)
  THEN Returned(inputSpec, <<Issue("warning", "ARTIFACTS_EMPTY", 0, 0)>>)
  ELSE
    LET spec == deepClone(inputSpec).value
        checked ==
          (IF spec.vccVersion # SupportedVersion
           THEN <<Issue("error", "VERSION_UNSUPPORTED", 0, 0)>> ELSE <<>>)
          \o ArtifactIssues(spec)
          \o DependsOnIssues(spec)
          \o PackagingIssues(spec)
          \o AcceptanceIssues(spec)
          \o RubricRefIssues(spec)
          \o GateIssues(spec)
          \o TeamIssues(spec, ctx)
        injected == Injected(spec, opts)
        issues == checked \o CoverageIssues(injected, ctx, registry, opts) IN
    IF \E i \in 1..Len(issues) : issues[i].severity = "error"
    THEN Thrown(issues)
    ELSE Returned(injected, issues)

\* the property reads of the pass that fail on an absent field:
\* spec.packaging.length, spec.acceptance.length (also acc.map of the
\* injection), spec.artifacts[i].owners.length of the team check, and
\* a.formats.some of findNarrativeArtifacts when AC-UNIV-TRACE-1 is injected
ReadsUndefined(spec, opts) ==
  \/ "packaging" \in spec.absent
  \/ "acceptance" \in spec.absent
  \/ \E a \in Range(spec.artifacts) : "owners" \in a.absent
  \/ /\ IF IsSet(opts.injectUniversalDefaults)
        THEN ValueOf(opts.injectUniversalDefaults) ELSE TRUE
     /\ "AC-UNIV-TRACE-1" \notin {ac.acId : ac \in Range(spec.acceptance)}
     /\ \E a \in Range(spec.artifacts) : a.required /\ "formats" \in a.absent

\* specIntegrityPass(inputSpec, ctx, registry, opts): throws
\* SpecIntegrityError(issues) or returns the normalized copy with its
\* issues, unless a read of an absent field ends it with a TypeError
specIntegrityPass(inputSpec, ctx, registry, opts) ==
  IF ArtifactsEmpty(deepClone(inputSpec).value)
  THEN Thrown(<<Issue("error", "ARTIFACTS_EMPTY", 0, 0)>>)
  ELSE IF ReadsUndefined(deepClone(inputSpec).value, opts)
  THEN TypeErrorThrown
  ELSE
    LET spec == deepClone(inputSpec).value
        checked ==
          (IF spec.vccVersion # SupportedVersion
           THEN <<Issue("error", "VERSION_UNSUPPORTED", 0, 0)>> ELSE <<>>)
          \o ArtifactIssues(spec)
          \o DependsOnIssues(spec)
          \o PackagingIssues(spec)
          \o AcceptanceIssues(spec)
          \o RubricRefIssues(spec)
          \o GateIssues(spec)
          \o TeamIssues(spec, ctx)
        injected == Injected(spec, opts)
        issues == checked \o CoverageIssues(injected, ctx, registry, opts) IN
    IF \E i \in 1..Len(issues) : issues[i].severity = "error"
    THEN Thrown(issues)
    ELSE Returned(injected, issues)

\* the caller's contract object after the call: the assignments and pushes
\* of the pass go to its working object `spec`, and show in the caller's
\* object only if that is the same object
CallerSpecAfter(inputSpec, opts) ==
  LET clone == deepClone(inputSpec) IN
  IF clone.aliased /\ ~ArtifactsEmpty(clone.value)
  THEN Injected(clone.value, opts)
  ELSE inputSpec

(* ------------------ calls of specIntegrityPass ------------------------ *)

\* artifacts a contract may declare: well-formed ones, one that depends on
\* an undeclared artifact and has no owners, one without id and formats
ArtifactPool ==
  { [artifactId |-> "A1", kind |-> "spec", subtype |-> "", required |-> TRUE,
     formats |-> <<"text/markdown">>, dependsOn |-> <<>>, owners |-> <<"role:Dev">>, absent |-> {}],
    [artifactId |-> "A2", kind |-> "data", subtype |-> "", required |-> FALSE,
     formats |-> <<"application/json">>, dependsOn |-> <<"A9">>, owners |-> <<>>, absent |-> {}],
    [artifactId |-> "", kind |-> "doc", subtype |-> "", required |-> TRUE,
     formats |-> <<>>, dependsOn |-> <<>>, owners |-> <<"role:QA">>, absent |-> {}] }

Criterion(acId, type, severity, targets, rule) ==
  [acId |-> acId, targetArtifacts |-> targets, type |-> type,
   severity |-> severity, rule |-> rule]

\* acceptance criteria a contract may declare
CriterionPool ==
  { Criterion("AC-1", "structure", "must", <<"A1">>,
              [EmptyRule EXCEPT !.requiredSections = <<"Scope">>]),
    Criterion("AC-2", "structure", "must", <<"A1">>, EmptyRule),
    Criterion("AC-3", "custom", "must", <<"A1">>, EmptyRule),
    Criterion("AC-4", "custom", "must", <<"A1">>,
              [EmptyRule EXCEPT !.adapter = "custom.accepting"]),
    Criterion("AC-5", "rubric", "should", <<"A9">>,
              [EmptyRule EXCEPT !.rubricRef = "RUBRIC-OVERALL-v1"]),
    Criterion("AC-UNIV-PROV-1", "custom", "should", <<"A1">>, EmptyRule) }

\* the well-formed artifact A1 of the pool
SpecArtifact == CHOOSE a \in ArtifactPool : a.artifactId = "A1"

\* an artifact that depends on A1
DependentArtifact ==
  [artifactId |-> "A3", kind |-> "report", subtype |-> "", required |-> FALSE,
   formats |-> <<"text/plain">>, dependsOn |-> <<"A1">>, owners |-> <<"role:Dev">>, absent |-> {}]

\* criteria of contracts that declare the rubric RUBRIC-X: rubric criteria
\* that refer to it, and a criterion that names a validator of another type
RubricCriterionPool ==
  { Criterion("AC-6", "structure", "must", <<"A1">>,
              [EmptyRule EXCEPT !.adapter = "consistency.simpleCrossCheck"]),
    Criterion("AC-7", "rubric", "must", <<"A1">>,
              [EmptyRule EXCEPT !.rubricRef = "RUBRIC-X"]),
    Criterion("AC-8", "rubric", "should", <<"A1">>,
              [EmptyRule EXCEPT !.rubricRef = "RUBRIC-X"]) }

SeqsUpTo(S, n) == UNION {[1..k -> S] : k \in 0..n}

Validator(id, types, can) == [id |-> id, supportedTypes |-> types, canValidate |-> can]

\* buildDefaultRegistry(): the five universal validators, in order
DefaultRegistry ==
  << Validator("structure.requiredSections", {"structure"}, "structure.requiredSections"),
     Validator("traceability.citationCoverage", {"traceability"}, "traceability.citationCoverage"),
     Validator("consistency.simpleCrossCheck", {"consistency"}, "consistency.simpleCrossCheck"),
     Validator("provenance.requiredFields", {"provenance"}, "provenance.requiredFields"),
     Validator("rubric.aiJudge", {"rubric", "consistency"}, "rubric.aiJudge") >>

\* registries a caller may pass: the default one, an empty one, the default
\* one preceded by custom validators whose canValidate throws / accepts, and
\* one whose validators all decline
Registries ==
  { DefaultRegistry,
    <<>>,
    << Validator("custom.throwing", {"custom", "structure"}, "throws"),
       Validator("custom.accepting", {"custom"}, "true") >> \o DefaultRegistry,
    << Validator("custom.declining", {"custom", "structure", "provenance"}, "false") >> }

\* the contracts handed to specIntegrityPass
Contracts ==
  [vccVersion      : {SupportedVersion, "sdlaf.vcc/v2"},
   hasArtifacts    : {TRUE},
   artifacts       : SeqsUpTo(ArtifactPool, MaxArtifacts),
   packaging       : {<<>>, <<[inputs |-> <<"A1", "A2">>]>>},
   acceptance      : SeqsUpTo(CriterionPool, MaxCriteria),
   rubrics         : {<<>>},
   gates           : {<<>>, <<[requiredApprovals |-> <<[rubricId |-> "RUBRIC-CLARITY-v1"]>>]>>},
   provenancePolicy : {[require |-> <<"inputs.enumerated">>]},
   intent          : {"string"},
   absent          : {{}}]
  \cup
  [vccVersion      : {SupportedVersion, "sdlaf.vcc/v2"},
   hasArtifacts    : {FALSE},
   artifacts       : {<<>>},
   packaging       : {<<>>, <<[inputs |-> <<"A1", "A2">>]>>},
   acceptance      : SeqsUpTo(CriterionPool, MaxCriteria),
   rubrics         : {<<>>},
   gates           : {<<>>},
   provenancePolicy : {[require |-> <<"inputs.enumerated">>]},
   intent          : {"string"},
   absent          : {{}}]
  \cup
  [vccVersion      : {SupportedVersion},
   hasArtifacts    : {TRUE},
   artifacts       : {<<SpecArtifact>>, <<SpecArtifact, DependentArtifact>>},
   packaging       : {<<>>, <<[inputs |-> <<"A1">>]>>},
   acceptance      : SeqsUpTo(RubricCriterionPool, MaxCriteria),
   rubrics         : {<<DefaultRubric("RUBRIC-X")>>},
   gates           : {<<>>, <<[requiredApprovals |-> <<[rubricId |-> "RUBRIC-X"]>>]>>},
   provenancePolicy : {[require |-> <<"inputs.enumerated">>]},
   intent          : {"string", "Date"},
   absent          : {{}}]

\* RunContext: the team roster, whether provenance signals are supplied and
\* whether an aiJudge function is configured
Contexts ==
  [team : {{}, {"role:Dev"}}, provenanceSignals : BOOLEAN, aiJudge : {FALSE}]
  \cup {[team |-> {}, provenanceSignals |-> TRUE, aiJudge |-> TRUE]}

\* opts: each flag left out (defaults to true) or switched off
Options ==
  [injectUniversalDefaults : {Unset, Some(FALSE)},
   requireMustCoverage     : {Unset, Some(FALSE)}]

\* contracts with a field left out: the packaging list, the acceptance
\* list, the owners or the formats of the artifact
IncompleteContracts ==
  LET contract == [vccVersion |-> SupportedVersion, hasArtifacts |-> TRUE,
                   artifacts |-> <<SpecArtifact>>, packaging |-> <<>>,
                   acceptance |-> <<>>, rubrics |-> <<>>, gates |-> <<>>,
                   provenancePolicy |-> [require |-> <<"inputs.enumerated">>],
                   intent |-> "string", absent |-> {}] IN
  { [contract EXCEPT !.absent = {"packaging"}],
    [contract EXCEPT !.absent = {"acceptance"}],
    [contract EXCEPT !.artifacts = <<[SpecArtifact EXCEPT !.owners = <<>>,
                                                          !.absent = {"owners"}]>>],
    [contract EXCEPT !.artifacts = <<[SpecArtifact EXCEPT !.formats = <<>>,
                                                          !.absent = {"formats"}]>>] }

Calls ==
  [made : {TRUE}, inputSpec : Contracts, ctx : Contexts,
   registry : Registries, opts : Options]
  \cup
  [made : {TRUE}, inputSpec : IncompleteContracts, ctx : {[team |-> {"role:Dev"}, provenanceSignals |-> TRUE, aiJudge |-> FALSE]},
   registry : {DefaultRegistry}, opts : Options]

IntegrityInit ==
  /\ severityOf = [c \in Criteria |-> "must"]
  /\ resourceConstraints = NoResourceConstraints
  /\ run = InitialRun
  /\ twin = InitialRun
  /\ exhausted = [time |-> FALSE, cost |-> FALSE]
  /\ lastEval = [failingNonMust |-> {}, scoreImproved |-> FALSE]
  /\ call \in Calls
  /\ outcome = NoOutcome
  /\ rerun = NoOutcome
  /\ callerSpec = call.inputSpec
  /\ store = NoStore
  /\ pass = NoPass

\* the call runs to its return or its throw
SpecIntegrityPass ==
  /\ outcome.kind = "none"
  /\ outcome' = specIntegrityPass(call.inputSpec, call.ctx, call.registry, call.opts)
  /\ callerSpec' = CallerSpecAfter(call.inputSpec, call.opts)
  /\ UNCHANGED <<engineVars, call, rerun, validationVars>>

\* the caller hands the returned contract to specIntegrityPass again, with
\* the same context, registry and options
SpecIntegrityPassAgain ==
  /\ outcome.kind = "returned"
  /\ rerun.kind = "none"
  /\ rerun' = specIntegrityPass(ValueOf(outcome.spec), call.ctx, call.registry, call.opts)
  /\ UNCHANGED <<engineVars, call, outcome, callerSpec, validationVars>>

IntegrityNext == SpecIntegrityPass \/ SpecIntegrityPassAgain

SpecIntegrity == IntegrityInit /\ [][IntegrityNext]_vars

(* ------------------------ validator dispatch -------------------------- *)

\* position in the registry of the validator with this id, 0 if none
IndexOfValidator(registry, id) ==
  IF \E i \in 1..Len(registry) : registry[i].id = id
  THEN CHOOSE i \in 1..Len(registry) :
         registry[i].id = id /\ \A k \in 1..(i - 1) : registry[k].id # id
  ELSE 0

\* the dispatch rule: the validator the rule payload names, used
\* unconditionally; otherwise the first registered validator that supports
\* the criterion's type and whose readiness predicate accepts (one that
\* throws is not ready); 0 if there is none
Dispatch(ac, spec, ctx, registry) ==
  IF ac.rule.adapter # "" THEN IndexOfValidator(registry, ac.rule.adapter)
  ELSE
    LET ready == {i \in 1..Len(registry) :
                    /\ ac.type \in registry[i].supportedTypes
                    /\ canValidate(registry[i], ac, spec, ctx) = "true"} IN
    IF ready = {} THEN 0 ELSE CHOOSE i \in ready : \A k \in ready : i <= k

(* ---------------------- the universal validators ---------------------- *)

\* a call that resolved with a value, and one that rejected
Ok(v) == [threw |-> FALSE, value |-> v]

Threw(e) == [threw |-> TRUE, value |-> e]

\* a line of an artifact's text: a "# Title" heading, a title underlined
\* with --- or ===, a "Title:" label, or a sentence of prose; cited when it
\* carries a citation or an UNSOURCED / INFERENCE marker
Line(style, words, cited) == [style |-> style, words |-> words, cited |-> cited]

\* String.toLowerCase on the titles in use: the regular expressions of
\* hasSection carry the i flag
LowerCase(w) ==
  CASE w \in {"Scope", "SCOPE"} -> "scope"
    [] w \in {"Risks", "RISKS"} -> "risks"
    [] w = "Assumptions" -> "assumptions"
    [] w = "Acceptance Criteria" -> "acceptance criteria"
    [] OTHER -> w

\* hasSection(text, sectionTitle): mdHeading, underline or label matches
hasSection(text, sectionTitle) ==
  \E l \in text.lines :
    /\ l.style \in {"heading", "underline", "label"}
    /\ LowerCase(l.words) = LowerCase(sectionTitle)

\* the location of the format of an artifact with this media type
UriOf(artifactId, mediaType) == <<artifactId, mediaType>>

\* (f.mediaType ?? "").startsWith("text/")
IsTextual(mediaType) == mediaType \in {"text/markdown", "text/plain"}

\* ctx.artifacts.readText(uri): rejects when the store cannot read it
readText(st, uri) ==
  IF \E t \in st.texts : t.uri = uri
  THEN Ok((CHOOSE t \in st.texts : t.uri = uri).text)
  ELSE Threw("read failed")

\* readArtifactText(spec, ctx, artifactId)
readArtifactText(spec, st, artifactId) ==
  LET found == {i \in 1..Len(spec.artifacts) : spec.artifacts[i].artifactId = artifactId} IN
  IF found = {} THEN Threw("Artifact not found")
  ELSE
    LET a == spec.artifacts[CHOOSE i \in found : \A k \in found : i <= k]
        textual == {k \in 1..Len(a.formats) : IsTextual(a.formats[k])} IN
    IF Len(a.formats) = 0 THEN Threw("TypeError")
    ELSE readText(st, UriOf(a.artifactId,
                            IF textual = {} THEN a.formats[1]
                            ELSE a.formats[CHOOSE k \in textual : \A m \in textual : k <= m]))

\* evidenceUriFor(acId): `sdlaf-exports/evidence/${acId}.txt`
evidenceUriFor(acId) == <<"sdlaf-exports/evidence/", acId, ".txt">>

\* the record the store holds at a location after writeText: what was
\* written and the iteration during which it was written
EvidenceRecord(st, evidenceUri, contents) ==
  [uri |-> evidenceUri, contents |-> contents, writtenIn |-> st.clock]

\* writeEvidence(ctx, evidenceUri, contents): writeText replaces what the
\* location held, then hash; either may reject
writeEvidence(st, evidenceUri, contents) ==
  LET written ==
        [st EXCEPT !.evidence = {e \in @ : e.uri # evidenceUri}
                                \cup {EvidenceRecord(st, evidenceUri, contents)}] IN
  IF st.failure = "writeText" THEN [threw |-> TRUE, store |-> st]
  ELSE IF st.failure = "hash" THEN [threw |-> TRUE, store |-> written]
  ELSE [threw |-> FALSE, store |-> written]

\* a ValidationResult, with the store as validate left it
Verdict(status, st) == [threw |-> FALSE, status |-> status, store |-> st]

\* validate rejected, with the store as it left it
Raised(st) == [threw |-> TRUE, status |-> "none", store |-> st]

\* the tail shared by the validators: write the evidence, return the result
Conclude(ac, status, narrative, st) ==
  LET ev == writeEvidence(st, evidenceUriFor(ac.acId), narrative) IN
  IF ev.threw THEN Raised(ev.store) ELSE Verdict(status, ev.store)

\* StructureRequiredSectionsValidator.validate
StructureRequiredSectionsValidator(ac, spec, ctx, st) ==
  LET targets == ac.targetArtifacts
      text == [j \in 1..Len(targets) |-> readArtifactText(spec, st, targets[j])] IN
  IF \E j \in 1..Len(targets) : text[j].threw THEN Raised(st)
  ELSE
    LET missing == {j \in 1..Len(targets) :
                      \E s \in Range(ac.rule.requiredSections) : ~hasSection(text[j].value, s)}
        pass_ == missing = {} IN
    Conclude(ac, IF pass_ THEN "pass" ELSE "fail", IF pass_ THEN "PASS" ELSE "FAIL", st)

\* the keys of the object literal `map`, and the field of ProvenanceSignals
\* each reads
SignalField ==
  [r \in {"inputs.enumerated", "tooling.recorded", "attestation.signed"} |->
     CASE r = "inputs.enumerated" -> "inputsEnumerated"
       [] r = "tooling.recorded" -> "toolingRecorded"
       [] r = "attestation.signed" -> "attestationSigned"]

\* names every object inherits from Object.prototype
ObjectPrototypeNames == {"constructor", "toString", "valueOf", "hasOwnProperty"}

\* map[r] is truthy: an own key holds the signal, any other name is looked
\* up on Object.prototype, where the inherited names hold functions
MapLookup(sig, r) ==
  IF r \in DOMAIN SignalField THEN sig[SignalField[r]]
  ELSE r \in ObjectPrototypeNames

\* ProvenanceRequiredFieldsValidator.validate
ProvenanceRequiredFieldsValidator(ac, spec, ctx, st) ==
  IF ~ctx.provenanceSignals THEN Conclude(ac, "fail", "FAIL", st)
  ELSE
    LET missing == {j \in 1..Len(ac.rule.require) : ~MapLookup(ctx.signals, ac.rule.require[j])} IN
    Conclude(ac, IF missing = {} THEN "pass" ELSE "fail",
             IF missing = {} THEN "PASS" ELSE "FAIL", st)

\* TraceabilityCitationCoverageValidator.validate: the coverage of a text
\* is cited / max(1, chunks); the minimum is the configured number (0.6 is
\* the one the contracts configure) or 0.5
TraceabilityCitationCoverageValidator(ac, spec, ctx, st) ==
  LET targets == ac.targetArtifacts
      text == [j \in 1..Len(targets) |-> readArtifactText(spec, st, targets[j])]
      minTenths == IF ac.rule.minCitationCoverage THEN 6 ELSE 5
      Total(t) == IF Cardinality(t.lines) >= 1 THEN Cardinality(t.lines) ELSE 1
      Cited(t) == Cardinality({l \in t.lines : l.cited}) IN
  IF \E j \in 1..Len(targets) : text[j].threw THEN Raised(st)
  ELSE
    LET pass_ == \A j \in 1..Len(targets) :
                   10 * Cited(text[j].value) >= minTenths * Total(text[j].value) IN
    Conclude(ac, IF pass_ THEN "pass" ELSE "fail", IF pass_ THEN "PASS" ELSE "FAIL", st)

\* findContradictionSignals(texts) has a signal of confidence 0.9 or 0.86:
\* an item one text lists out of scope and another treats as in scope, or a
\* MUST / SHALL line of one text that another negates
HighConfidenceSignal(texts) ==
  \E a \in texts : \E b \in texts \ {a} :
    \/ a.outOfScope \cap b.inScope # {}
    \/ a.musts \cap b.negates # {}

\* ConsistencySimpleCrossCheckValidator.validate: a target that cannot be
\* read is left out
ConsistencySimpleCrossCheckValidator(ac, spec, ctx, st) ==
  LET targets == ac.targetArtifacts
      text == [j \in 1..Len(targets) |-> readArtifactText(spec, st, targets[j])]
      texts == {text[j].value : j \in {k \in 1..Len(targets) : ~text[k].threw}}
      pass_ == ~(Cardinality(texts) >= 2 /\ HighConfidenceSignal(texts)) IN
  Conclude(ac, IF pass_ THEN "pass" ELSE "fail", IF pass_ THEN "PASS" ELSE "FAIL", st)

\* safeReadText(ctx, uri): the call readArtifactText(ctx, uri) hands the
\* context over as the contract, whose `artifacts` is the store and has no
\* find: the TypeError is caught, a read-failure record is written and the
\* content is empty
safeReadText(st, uri) ==
  LET ev == writeEvidence(st, <<"evidence://read-failure/", uri, ".txt">>, "WARN") IN
  [threw |-> ev.threw, value |-> "", store |-> ev.store]

\* mutant: without a judge the criterion fails
RubricAiJudgeValidatorUnjudgedFails(ac, spec, ctx, st) ==
  LET passThreshold == IF IsSet(ac.rule.passThreshold) THEN ValueOf(ac.rule.passThreshold) ELSE 4
      content == IF Len(ac.targetArtifacts) > 0 THEN safeReadText(st, ac.targetArtifacts[1])
                 ELSE [threw |-> FALSE, value |-> "", store |-> st] IN
  IF content.threw THEN Raised(content.store)
  ELSE IF ~ctx.aiJudge THEN Conclude(ac, "fail", "FAIL", content.store)
  ELSE IF ~IsSet(ctx.judged) THEN Raised(content.store)
  ELSE LET pass_ == ValueOf(ctx.judged) >= passThreshold IN
       Conclude(ac, IF pass_ THEN "pass" ELSE "fail", IF pass_ THEN "PASS" ELSE "FAIL",
                content.store)

\* RubricAiJudgeValidator.validate; ctx.judged is the score ctx.aiJudge
\* resolves with, unset when it rejects
RubricAiJudgeValidator(ac, spec, ctx, st) ==
  LET passThreshold == IF IsSet(ac.rule.passThreshold) THEN ValueOf(ac.rule.passThreshold) ELSE 4
      content == IF Len(ac.targetArtifacts) > 0 THEN safeReadText(st, ac.targetArtifacts[1])
                 ELSE [threw |-> FALSE, value |-> "", store |-> st] IN
  IF content.threw THEN Raised(content.store)
  ELSE IF ~ctx.aiJudge THEN Conclude(ac, "skip", "SKIP", content.store)
  ELSE IF ~IsSet(ctx.judged) THEN Raised(content.store)
  ELSE LET pass_ == ValueOf(ctx.judged) >= passThreshold IN
       Conclude(ac, IF pass_ THEN "pass" ELSE "fail", IF pass_ THEN "PASS" ELSE "FAIL",
                content.store)

\* JsonSchemaValidator.validate; this.loadSchema(schemaRef) resolves,
\* ctx.ajv tells whether import("ajv")
\* resolves, text.json whether the text parses and conforms to the schema
JsonSchemaValidator(ac, spec, ctx, st) ==
  IF Len(ac.targetArtifacts) = 0 THEN Raised(st)
  ELSE IF ~ctx.ajv THEN Conclude(ac, "skip", "SKIP", st)
  ELSE
    LET raw == readArtifactText(spec, st, ac.targetArtifacts[1]) IN
    IF raw.threw THEN Raised(st)
    ELSE IF raw.value.json = "unparsable" THEN Conclude(ac, "fail", "FAIL", st)
    ELSE IF raw.value.json = "conforming" THEN Conclude(ac, "pass", "PASS", st)
    ELSE Conclude(ac, "fail", "FAIL", st)

\* v.validate(ac, spec, ctx) of the validator registered under v.id
validate(v, ac, spec, ctx, st) ==
  CASE v.id = "structure.requiredSections" -> StructureRequiredSectionsValidator(ac, spec, ctx, st)
    [] v.id = "traceability.citationCoverage" ->
         TraceabilityCitationCoverageValidator(ac, spec, ctx, st)
    [] v.id = "consistency.simpleCrossCheck" ->
         ConsistencySimpleCrossCheckValidator(ac, spec, ctx, st)
    [] v.id = "provenance.requiredFields" -> ProvenanceRequiredFieldsValidator(ac, spec, ctx, st)
    [] v.id = "rubric.aiJudge" -> RubricAiJudgeValidator(ac, spec, ctx, st)
    [] v.id = "schema.jsonSchema" -> JsonSchemaValidator(ac, spec, ctx, st)
    [] OTHER -> Raised(st)

(* ----------------------- the evaluation pass -------------------------- *)

\* what the pass records for the criterion at position i of the contract
Evaluated(i, ac, validator, status, error) ==
  [index |-> i, acId |-> ac.acId, severity |-> ac.severity,
   validator |-> validator, status |-> status, error |-> error]

\* mutant: an exception of validate ends the pass
evaluateCriterionUnguarded(i, spec, ctx, registry, st) ==
  LET ac == spec.acceptance[i]
      v == Dispatch(ac, spec, ctx, registry) IN
  IF v = 0
  THEN [aborted |-> FALSE, result |-> Evaluated(i, ac, "", "skip", FALSE), store |-> st]
  ELSE
    LET r == validate(registry[v], ac, spec, ctx, st) IN
    [aborted |-> r.threw,
     result  |-> Evaluated(i, ac, registry[v].id, IF r.threw THEN "fail" ELSE r.status, r.threw),
     store   |-> r.store]

\* the evaluation of one criterion: dispatch, validate, and an exception of
\* validate recovered as a fail verdict that carries the error text; a
\* criterion no validator is ready for is not scored
evaluateCriterion(i, spec, ctx, registry, st) ==
  LET ac == spec.acceptance[i]
      v == Dispatch(ac, spec, ctx, registry) IN
  IF v = 0
  THEN [aborted |-> FALSE, result |-> Evaluated(i, ac, "", "skip", FALSE), store |-> st]
  ELSE
    LET r == validate(registry[v], ac, spec, ctx, st) IN
    [aborted |-> FALSE,
     result  |-> Evaluated(i, ac, registry[v].id, IF r.threw THEN "fail" ELSE r.status, r.threw),
     store   |-> r.store]

\* evaluateMustCriteria(spec, outputs): the MUST criteria whose verdict is fail
failingMust(verdicts) ==
  {e.acId : e \in {x \in verdicts : x.severity = "must" /\ x.status = "fail"}}

(* ----------------- a run: integrity pass, then the loop --------------- *)

\* largest maxIterations of a contract that is run with its validators
MaxPasses == 2

\* texts of the artifact A1
Text(lines, json) ==
  [lines |-> lines, json |-> json,
   outOfScope |-> {}, inScope |-> {}, musts |-> {}, negates |-> {}]

\* Scope and Risks as sections, nothing else
BothHeadings ==
  Text({Line("heading", "Scope", TRUE), Line("underline", "RISKS", FALSE)}, "unparsable")

\* Risks is mentioned in a sentence only
MissingRisks ==
  Text({Line("heading", "Scope", TRUE), Line("prose", "Risks", FALSE)}, "unparsable")

\* the four sections the injected structure criterion asks for
AllSections ==
  Text({Line("heading", "Scope", TRUE), Line("label", "Assumptions", TRUE),
        Line("heading", "Risks", TRUE), Line("underline", "Acceptance Criteria", FALSE)},
       "unparsable")

\* ctx.artifacts: the text stored for A1 (none: readText rejects), whether
\* writeText or hash rejects, the evidence records written so far
Store(texts, failure) ==
  [inUse |-> TRUE, texts |-> texts, failure |-> failure, evidence |-> {}, clock |-> 0]

TextOfA1(text) == {[uri |-> UriOf("A1", "text/markdown"), text |-> text]}

Stores ==
  {Store(TextOfA1(t), "none") : t \in {BothHeadings, MissingRisks, AllSections}}
  \cup {Store({}, "none"),
        Store(TextOfA1(BothHeadings), "writeText"),
        Store(TextOfA1(AllSections), "hash")}

\* ProvenanceSignals
Signals(inputsEnumerated, toolingRecorded) ==
  [inputsEnumerated |-> inputsEnumerated, toolingRecorded |-> toolingRecorded,
   attestationSigned |-> FALSE]

\* RunContext of a run: the signal map (if any), the judge (if any) and the
\* score it gives, whether ajv can be imported
RunContext(hasSignals, signals, hasJudge, judged, ajv) ==
  [team |-> {"role:Dev"}, provenanceSignals |-> hasSignals, signals |-> signals,
   aiJudge |-> hasJudge, judged |-> judged, ajv |-> ajv]

RunContexts ==
  { RunContext(FALSE, Signals(FALSE, FALSE), FALSE, Unset, FALSE),
    RunContext(TRUE, Signals(TRUE, TRUE), FALSE, Unset, TRUE),
    RunContext(TRUE, Signals(TRUE, FALSE), TRUE, Some(3), TRUE),
    RunContext(TRUE, Signals(TRUE, TRUE), TRUE, Some(4), FALSE),
    RunContext(TRUE, Signals(FALSE, FALSE), TRUE, Unset, TRUE) }

\* the criterion of scenarios A and B
ScenarioCriterion ==
  Criterion("AC-1", "structure", "must", <<"A1">>,
            [EmptyRule EXCEPT !.requiredSections = <<"Scope", "Risks">>])

\* criteria a contract may declare next to it
RunCriterionPool ==
  { Criterion("AC-R1", "rubric", "should", <<"A1">>,
              [EmptyRule EXCEPT !.rubricRef = "RUBRIC-X"]),
    Criterion("AC-R2", "rubric", "must", <<>>,
              [EmptyRule EXCEPT !.rubricRef = "RUBRIC-X", !.passThreshold = Some(3)]),
    Criterion("AC-P1", "provenance", "must", <<"A1">>,
              [EmptyRule EXCEPT !.hasRequire = TRUE,
                                !.require = <<"inputs.enumerated", "tooling.recorded">>]),
    Criterion("AC-P2", "provenance", "should", <<"A1">>,
              [EmptyRule EXCEPT !.hasRequire = TRUE, !.require = <<"constructor">>]),
    Criterion("AC-P3", "provenance", "should", <<"A1">>,
              [EmptyRule EXCEPT !.hasRequire = TRUE, !.require = <<"unknown.signal">>]),
    Criterion("AC-P4", "provenance", "should", <<"A1">>,
              [EmptyRule EXCEPT !.hasRequire = TRUE]),
    Criterion("AC-P5", "provenance", "should", <<"A1">>,
              [EmptyRule EXCEPT !.adapter = "provenance.requiredFields", !.hasRequire = TRUE,
                                !.require = <<"inputs.enumerated">>]),
    Criterion("AC-S1", "schema", "should", <<>>,
              [EmptyRule EXCEPT !.jsonSchema = "schema.json"]),
    Criterion("AC-S2", "schema", "should", <<"A1">>,
              [EmptyRule EXCEPT !.adapter = "schema.jsonSchema",
                                !.jsonSchema = "schema.json"]) }

\* a second rubric criterion on the target of AC-R1
SecondRubricCriterion ==
  Criterion("AC-R3", "rubric", "should", <<"A1">>,
            [EmptyRule EXCEPT !.rubricRef = "RUBRIC-X"])

\* the contract of scenarios A and B: one required text artifact, one
\* criterion; the same contract with a second criterion; and a contract of
\* two rubric criteria on the same target
RunContracts ==
  [vccVersion      : {SupportedVersion},
   hasArtifacts    : {TRUE},
   artifacts       : {<<SpecArtifact>>},
   packaging       : {<<[inputs |-> <<"A1">>]>>},
   acceptance      : {<<ScenarioCriterion>>}
                     \cup {<<ScenarioCriterion, ac>> : ac \in RunCriterionPool}
                     \cup {<<SecondRubricCriterion,
                              CHOOSE ac \in RunCriterionPool : ac.acId = "AC-R1">>},
   rubrics         : {<<DefaultRubric("RUBRIC-X")>>},
   gates           : {<<>>},
   provenancePolicy : {[require |-> <<"inputs.enumerated">>]},
   intent          : {"string"},
   absent          : {{}}]

\* the default registry, and the default registry between a validator whose
\* canValidate throws and the optional JSON schema validator
RunRegistries ==
  { DefaultRegistry,
    <<Validator("custom.throwing", {"structure", "schema"}, "throws")>>
    \o DefaultRegistry
    \o <<Validator("schema.jsonSchema", {"schema"}, "schema.jsonSchema")>> }

\* default options, and universal defaults switched off
RunOptions ==
  [injectUniversalDefaults : {Unset, Some(FALSE)}, requireMustCoverage : {Unset}]

RunCalls ==
  [made : {TRUE}, inputSpec : RunContracts, ctx : RunContexts,
   registry : RunRegistries, opts : RunOptions]

\* the pass of an iteration: the verdicts reached so far, and whether the
\* loop body has gone on from them
NewPass == [started |-> TRUE, complete |-> FALSE, verdicts |-> {}]

ValidationInit ==
  /\ severityOf = [c \in Criteria |-> "must"]
  /\ resourceConstraints \in
       [present : {TRUE}, maxIterations : {Some(n) : n \in 1..MaxPasses},
        maxTimeMs : {Unset}, maxCostUsd : {Unset}, stagnationWindow : {1}]
  /\ run = InitialRun
  /\ twin = InitialRun
  /\ exhausted = [time |-> FALSE, cost |-> FALSE]
  /\ lastEval = [failingNonMust |-> {}, scoreImproved |-> FALSE]
  /\ call \in RunCalls
  /\ outcome = NoOutcome
  /\ rerun = NoOutcome
  /\ callerSpec = call.inputSpec
  /\ store \in Stores
  /\ pass = NewPass

\* the loop is entered on the contract specIntegrityPass returned
InLoopBody ==
  /\ outcome.kind = "returned"
  /\ run.status = "RUNNING"
  /\ LoopTest(run.t)

\* the criteria of the iteration under evaluation that have their verdict
Scored == IF pass.complete THEN {} ELSE {e.index : e \in pass.verdicts}

\* evaluateMustCriteria scores one more criterion of the iteration; the
\* criteria are scored in any order
ValidateCriterion ==
  /\ InLoopBody
  /\ \E i \in 1..Len(ValueOf(outcome.spec).acceptance) \ Scored :
       LET e == evaluateCriterion(i, ValueOf(outcome.spec), call.ctx, call.registry,
                                  [store EXCEPT !.clock = run.t + 1]) IN
       /\ store' = e.store
       /\ pass' = [NewPass EXCEPT !.verdicts =
                     (IF pass.complete THEN {} ELSE pass.verdicts) \cup {e.result}]
       /\ run' = IF e.aborted THEN LoopThrow(run) ELSE run
       /\ twin' = run'
  /\ UNCHANGED <<severityOf, resourceConstraints, exhausted, lastEval, integrityVars>>

\* refine(outputs, failing): the text of A1 is left as it is or rewritten
Refined(st) == {st, [st EXCEPT !.texts = IF @ = {} THEN @ ELSE TextOfA1(AllSections)]}

\* mutant: the loop body goes on as soon as one criterion has its verdict
ConcludeIterationPartial ==
  /\ InLoopBody
  /\ ~pass.complete
  /\ Scored # {}
  /\ run' = LoopBodyOn(run, failingMust(pass.verdicts), 0)
  /\ twin' = run'
  /\ pass' = [pass EXCEPT !.complete = TRUE]
  /\ store' \in (IF run'.status = "RUNNING" THEN Refined(store) ELSE {store})
  /\ UNCHANGED <<severityOf, resourceConstraints, exhausted, lastEval, integrityVars>>

\* every criterion has its verdict: the loop body goes on with the
\* failing-MUST set, and refines the outputs when the run is not over
ConcludeIteration ==
  /\ InLoopBody
  /\ ~pass.complete
  /\ Scored = 1..Len(ValueOf(outcome.spec).acceptance)
  /\ run' = LoopBodyOn(run, failingMust(pass.verdicts), 0)
  /\ twin' = run'
  /\ pass' = [pass EXCEPT !.complete = TRUE]
  /\ store' \in (IF run'.status = "RUNNING" THEN Refined(store) ELSE {store})
  /\ UNCHANGED <<severityOf, resourceConstraints, exhausted, lastEval, integrityVars>>

\* the loop test fails on the returned contract's run
RunExit ==
  /\ outcome.kind = "returned"
  /\ ExitLoop

ValidationNext ==
  \/ SpecIntegrityPass
  \/ ValidateCriterion
  \/ ConcludeIteration
  \/ RunExit

SpecValidation == ValidationInit /\ [][ValidationNext]_vars

(* ------------------- properties of the convergence loop --------------- *)

maxIterations == ValueOf(resourceConstraints.maxIterations)

\* the failing-MUST sets of the iterations evaluated so far, in order
FailingSequence(r) ==
  [i \in 1..r.iteration |->
     IF i <= Len(r.history) THEN r.history[i].failingMust ELSE r.failing]

\* the history as isStagnant saw it in the last evaluated iteration
HistoryBefore(r) == SubSeq(r.history, 1, r.iteration - 1)

\* the last n evaluated iterations had one and the same non-empty failing set
IdenticalTail(r, n) ==
  /\ r.iteration >= n
  /\ r.failing # {}
  /\ \A i \in (r.iteration - n + 1)..r.iteration : FailingSequence(r)[i] = r.failing

\* iterations remain after the last evaluated one
IterationsLeft(r) ==
  /\ IsSet(resourceConstraints.maxIterations)
  /\ r.iteration < maxIterations

\* iteration, time and cost budget all remain
BudgetRemains(r) == IterationsLeft(r) /\ ~exhausted.time /\ ~exhausted.cost

\* C1: termination law (success). Once an iteration has been evaluated, the
\* run is SUCCESS exactly when the failing-MUST set of that iteration is
\* empty; SUCCESS is never reported without an evaluated iteration.
C1_SuccessIffNoFailingMust ==
  /\ run.status = "SUCCESS" => run.iteration >= 1
  /\ run.iteration >= 1 => (run.status = "SUCCESS" <=> run.failing = {})

\* C1 witness: SUCCESS in an iteration in which the MAY criterion fails
C1_Witness ==
  /\ run.status = "SUCCESS"
  /\ severityOf["AC-3"] = "may"
  /\ lastEval.failingNonMust = {"AC-3"}
  /\ run.iteration >= 2

C3_SuccessBeforeExhaustion ==
  (run.iteration >= 1 /\ run.failing = {}) =>
    (run.status = "SUCCESS" /\ run.reason = "criteria_satisfied")

\* C3 witness: SUCCESS in iteration maxIterations with time and cost reached
C3_Witness ==
  /\ run.status = "SUCCESS"
  /\ IsSet(resourceConstraints.maxIterations)
  /\ run.iteration = maxIterations
  /\ run.iteration >= 2
  /\ exhausted.time
  /\ exhausted.cost

\* C4 as claimed: an iteration evaluated with a non-empty failing-MUST set
\* while a configured resource is exhausted (time or cost reached, or the
\* iteration count at maxIterations) ends the run FAILURE with a resource
\* reason, not stagnant; for the iteration count the loop's own return after
\* the last iteration is accepted as that FAILURE.
C4_ExhaustionFailure ==
  [][(/\ run.status = "RUNNING"
      /\ run'.iteration = run.iteration + 1
      /\ run'.failing # {}
      /\ (exhausted.time \/ exhausted.cost \/ run'.iteration >= maxIterations))
     => /\ run'.reason # "stagnant"
        /\ (exhausted.time \/ exhausted.cost) => run'.status = "FAILURE"
        /\ run'.status = "RUNNING" => ~LoopTest(run'.t)]_vars

C6_ScoreNeverDecides ==
  /\ twin.status = run.status
  /\ twin.reason = run.reason
  /\ twin.iteration = run.iteration
  /\ twin.t = run.t
  /\ twin.failing = run.failing
  /\ twin.history = run.history

\* C6 witness: a run ended as stagnant in an iteration whose score improved
C6_Witness ==
  /\ run.status = "FAILURE"
  /\ run.reason = "stagnant"
  /\ lastEval.scoreImproved
  /\ twin.score < run.score

\* C7 as claimed (its safety half): a run that has left RUNNING is in exactly
\* one of SUCCESS or FAILURE.
C7_EndsInSuccessOrFailure == run.status \in {"RUNNING", "SUCCESS", "FAILURE"}

\* the failing-MUST set has not shrunk against the snapshot that the
\* history holds stagnationWindow iterations back
NotShrunkOverWindow(failing, history) ==
  LET W == resourceConstraints.stagnationWindow IN
  /\ Len(history) >= W
  /\ Cardinality(failing) >= Cardinality(history[Len(history) - W + 1].failingMust)
  /\ history[Len(history) - W + 1].failingMust \subseteq failing

\* C21: the stagnation rule of step 4. An evaluated iteration ends the run
\* with reason stagnant exactly when success did not apply (the failing-MUST
\* set is not empty), exhaustion did not apply (time and cost not reached,
\* iteration count below maxIterations), the history holds at least
\* stagnationWindow entries and the set has not shrunk, neither in count nor
\* by a removed element, against the set recorded stagnationWindow
\* iterations earlier; a grown set counts as not shrunk.
C21_StagnationRule ==
  [][(run.status = "RUNNING" /\ run'.iteration = run.iteration + 1) =>
       (run'.reason = "stagnant" <=>
          /\ run'.failing # {}
          /\ ~(exhausted.time \/ exhausted.cost \/ run'.iteration >= maxIterations)
          /\ NotShrunkOverWindow(run'.failing, run.history))]_vars

(* ------------------- properties of specIntegrityPass ------------------ *)

Done == outcome.kind # "none"

HasIssue(severity, code) ==
  \E i \in 1..Len(outcome.issues) :
    outcome.issues[i].severity = severity /\ outcome.issues[i].code = code

HasIssueAt(severity, code, i, j) ==
  \E k \in 1..Len(outcome.issues) : outcome.issues[k] = Issue(severity, code, i, j)

Enabled(flag) == IF IsSet(flag) THEN ValueOf(flag) ELSE TRUE

\* C8: a contract with zero artifacts (list missing or empty) makes
\* specIntegrityPass fail with an error-severity ARTIFACTS_EMPTY issue and
\* no normalized contract, whatever options, registry and context are
C8_ZeroArtifactsRejected ==
  (Done /\ ArtifactsEmpty(call.inputSpec)) =>
    /\ outcome.kind = "thrown"
    /\ HasIssue("error", "ARTIFACTS_EMPTY")
    /\ outcome.spec = Unset

\* an empty (not missing) list, every check switched off, nothing registered
C8_Witness ==
  /\ outcome.kind = "thrown"
  /\ call.inputSpec.hasArtifacts
  /\ Len(call.inputSpec.artifacts) = 0
  /\ call.inputSpec.vccVersion = SupportedVersion
  /\ call.registry = <<>>
  /\ call.opts.injectUniversalDefaults = Some(FALSE)
  /\ call.opts.requireMustCoverage = Some(FALSE)
  /\ HasIssue("error", "ARTIFACTS_EMPTY")

\* the problems rules 1-8 define for a contract, each with its severity,
\* code and position; an artifact is checked for formats and owners whether
\* or not it has an identifier
DefinedProblems(spec, ctx) ==
  (IF ArtifactsEmpty(spec) THEN {Issue("error", "ARTIFACTS_EMPTY", 0, 0)} ELSE {})
  \cup (IF spec.vccVersion # SupportedVersion
        THEN {Issue("error", "VERSION_UNSUPPORTED", 0, 0)} ELSE {})
  \cup {Issue("error", "ARTIFACT_ID_MISSING", i - 1, 0) :
          i \in {k \in 1..Len(spec.artifacts) : spec.artifacts[k].artifactId = ""}}
  \cup {Issue("error", "ARTIFACT_ID_DUPLICATE", i - 1, 0) :
          i \in {k \in 1..Len(spec.artifacts) :
                   /\ spec.artifacts[k].artifactId # ""
                   /\ \E m \in 1..(k - 1) :
                        spec.artifacts[m].artifactId = spec.artifacts[k].artifactId}}
  \cup {Issue("error", "ARTIFACT_FORMATS_EMPTY", i - 1, 0) :
          i \in {k \in 1..Len(spec.artifacts) : Len(spec.artifacts[k].formats) = 0}}
  \cup {Issue("warning", "ARTIFACT_OWNERS_EMPTY", i - 1, 0) :
          i \in {k \in 1..Len(spec.artifacts) : Len(spec.artifacts[k].owners) = 0}}
  \cup Range(DependsOnIssues(spec))
  \cup Range(PackagingIssues(spec))
  \cup Range(AcceptanceIssues(spec))
  \cup Range(RubricRefIssues(spec))
  \cup Range(GateIssues(spec))
  \cup Range(TeamIssues(spec, ctx))

\* C9: integrity checking is all-or-nothing and complete: it returns the
\* normalized contract with issues that are all warnings, or it fails with
\* an issue list that holds every problem the rules define for the contract
C9_AllOrNothingAndComplete ==
  Done =>
    \/ /\ outcome.kind = "returned"
       /\ IsSet(outcome.spec)
       /\ \A i \in 1..Len(outcome.issues) : outcome.issues[i].severity = "warning"
    \/ /\ outcome.kind = "thrown"
       /\ outcome.spec = Unset
       /\ DefinedProblems(call.inputSpec, call.ctx) \subseteq Range(outcome.issues)

\* the criteria the coverage rule ranges over: the declared ones and, when
\* injection is enabled, the injected ones
CoveredCriteria ==
  IF ArtifactsEmpty(call.inputSpec) THEN call.inputSpec.acceptance
  ELSE Injected(call.inputSpec, call.opts).acceptance

CoveredContract ==
  IF ArtifactsEmpty(call.inputSpec) THEN call.inputSpec
  ELSE Injected(call.inputSpec, call.opts)

Supporting(ac) == {v \in Range(call.registry) : ac.type \in v.supportedTypes}

\* C10: with requireMustCoverage enabled, a MUST criterion (declared or
\* injected) that names no validator and whose type no registered validator
\* supports makes the pass fail with NO_VALIDATOR_FOR_TYPE; one whose type
\* is supported but which no readiness predicate accepts makes it fail with
\* UNVERIFIABLE_MUST
C10_UncoveredMustRejected ==
  (Done /\ Enabled(call.opts.requireMustCoverage)) =>
    \A n \in 1..Len(CoveredCriteria) :
      LET ac == CoveredCriteria[n] IN
      (ac.severity = "must" /\ ac.rule.adapter = "") =>
        /\ Supporting(ac) = {} =>
             /\ outcome.kind = "thrown"
             /\ HasIssueAt("error", "NO_VALIDATOR_FOR_TYPE",
                           FindIndex(CoveredCriteria, ac.acId), 0)
        /\ (/\ Supporting(ac) # {}
            /\ \A v \in Supporting(ac) :
                 canValidate(v, ac, CoveredContract, call.ctx) # "true") =>
             /\ outcome.kind = "thrown"
             /\ HasIssueAt("error", "UNVERIFIABLE_MUST",
                           FindIndex(CoveredCriteria, ac.acId), 0)

\* validate of this validator can return pass or fail in this context: the
\* rubric judge returns skip whenever no aiJudge is configured
CanReturnPassOrFail(v, ctx) == v.id = "rubric.aiJudge" => ctx.aiJudge

\* C11: whenever specIntegrityPass succeeds with requireMustCoverage
\* enabled, every MUST criterion of the normalized contract can be scored:
\* the validator dispatch will use is registered, supports the criterion's
\* type, accepts it in its readiness check and can return pass or fail
C11_EveryMustScoreable ==
  (outcome.kind = "returned" /\ Enabled(call.opts.requireMustCoverage)) =>
    LET spec == ValueOf(outcome.spec) IN
    \A n \in 1..Len(spec.acceptance) :
      LET ac == spec.acceptance[n]
          d == Dispatch(ac, spec, call.ctx, call.registry) IN
      ac.severity = "must" =>
        /\ d # 0
        /\ ac.type \in call.registry[d].supportedTypes
        /\ canValidate(call.registry[d], ac, spec, call.ctx) = "true"
        /\ CanReturnPassOrFail(call.registry[d], call.ctx)

IsPrefix(short, long) ==
  Len(short) <= Len(long) /\ SubSeq(long, 1, Len(short)) = short

\* every reference of this contract resolves within it
AllReferencesResolve(spec) ==
  LET ids == {a.artifactId : a \in Range(spec.artifacts)}
      rubricIds == {r.rubricId : r \in Range(spec.rubrics)} IN
  /\ \A a \in Range(spec.artifacts) : Range(a.dependsOn) \subseteq ids
  /\ \A p \in Range(spec.packaging) : Range(p.inputs) \subseteq ids
  /\ \A ac \in Range(spec.acceptance) :
       /\ Range(ac.targetArtifacts) \subseteq ids
       /\ ac.rule.rubricRef # "" => ac.rule.rubricRef \in rubricIds
  /\ \A g \in Range(spec.gates) : \A ra \in Range(g.requiredApprovals) :
       ra.rubricId # "" => ra.rubricId \in rubricIds

\* C12: in the normalized contract of a successful pass every dependsOn
\* identifier, packaging input and criterion target (declared or injected)
\* resolves to a declared artifact, every rubric reference of a criterion or
\* gate approval resolves to a rubric of the normalized contract, and every
\* artifact, criterion and rubric the input declared is still there
C12_ReferencesResolve ==
  outcome.kind = "returned" =>
    LET spec == ValueOf(outcome.spec) IN
    /\ AllReferencesResolve(spec)
    /\ spec.artifacts = call.inputSpec.artifacts
    /\ IsPrefix(call.inputSpec.acceptance, spec.acceptance)
    /\ IsPrefix(call.inputSpec.rubrics, spec.rubrics)

\* a successful pass with injection over a contract with a dependsOn
\* reference, a packaging input, a rubric criterion and a gate approval
C12_Witness ==
  /\ outcome.kind = "returned"
  /\ Enabled(call.opts.injectUniversalDefaults)
  /\ Len(call.inputSpec.artifacts) = 2
  /\ call.inputSpec.artifacts[2].dependsOn = <<"A1">>
  /\ Len(call.inputSpec.packaging) = 1
  /\ Len(call.inputSpec.gates) = 1
  /\ Len(call.inputSpec.acceptance) = 1
  /\ call.inputSpec.acceptance[1].rule.rubricRef = "RUBRIC-X"
  /\ Len(ValueOf(outcome.spec).acceptance) = 5
  /\ Len(ValueOf(outcome.spec).rubrics) = 3

Unique(seq) == \A i, j \in 1..Len(seq) : seq[i] = seq[j] => i = j

\* C13: running specIntegrityPass on the contract an earlier successful run
\* returned (same registry, context and options) succeeds and returns a
\* contract equal to its input; criterion and rubric identifiers stay unique
C13_Idempotent ==
  rerun.kind # "none" =>
    /\ rerun.kind = "returned"
    /\ ValueOf(rerun.spec) = ValueOf(outcome.spec)
    /\ Unique([i \in 1..Len(ValueOf(rerun.spec).acceptance) |->
                 ValueOf(rerun.spec).acceptance[i].acId])
    /\ Unique([i \in 1..Len(ValueOf(rerun.spec).rubrics) |->
                 ValueOf(rerun.spec).rubrics[i].rubricId])

\* a second run over a contract into which the first run injected the four
\* criteria and the two rubrics, and whose intent it had round-tripped
C13_Witness ==
  /\ rerun.kind = "returned"
  /\ Enabled(call.opts.injectUniversalDefaults)
  /\ Enabled(call.opts.requireMustCoverage)
  /\ call.inputSpec.intent = "Date"
  /\ Len(call.inputSpec.acceptance) = 1
  /\ Len(ValueOf(outcome.spec).acceptance) = 5
  /\ Len(ValueOf(rerun.spec).rubrics) = 3

\* C14: for every contract with at least one artifact that passes with
\* default injection, the MUST criteria AC-UNIV-STRUCT-1 and AC-UNIV-PROV-1
\* that injection added each target at least one artifact
C14_InjectedMustHasTargets ==
  (outcome.kind = "returned" /\ Enabled(call.opts.injectUniversalDefaults)) =>
    LET acceptance == ValueOf(outcome.spec).acceptance IN
    \A n \in 1..Len(acceptance) :
      (/\ acceptance[n].acId \in {"AC-UNIV-STRUCT-1", "AC-UNIV-PROV-1"}
       /\ n > Len(call.inputSpec.acceptance)) =>
        Len(acceptance[n].targetArtifacts) > 0

\* C15: specIntegrityPass never mutates the contract it is given: after the
\* call, whether it returned or threw, the caller's contract is what it was
\* before the call
C15_InputNotMutated == Done => callerSpec = call.inputSpec

\* a successful pass whose returned copy carries the injected criteria and
\* rubrics and the round-tripped intent, none of which the caller's has
C15_Witness ==
  /\ outcome.kind = "returned"
  /\ call.inputSpec.intent = "Date"
  /\ ValueOf(outcome.spec).intent = "string"
  /\ Len(callerSpec.acceptance) = 1
  /\ Len(ValueOf(outcome.spec).acceptance) = 5
  /\ Len(callerSpec.rubrics) = 1
  /\ Len(ValueOf(outcome.spec).rubrics) = 3


(* ------------------- properties of a run with validators -------------- *)

\* the verdict the pass holds for this criterion
VerdictOf(acId) == CHOOSE e \in pass.verdicts : e.acId = acId

\* the contract of scenarios A and B is checked with default options and
\* run on a store that holds the text and takes every write
ScenarioRun ==
  /\ call.inputSpec.acceptance = <<ScenarioCriterion>>
  /\ call.opts.injectUniversalDefaults = Unset
  /\ store.failure = "none"
  /\ store.texts # {}

\* C16: for the contract of scenarios A and B, checked with default options
\* and run, iteration 1 is decided by AC-1 alone: if AC-1 passes (the text
\* has both headings) the run is SUCCESS at iteration 1 with nothing
\* failing; if AC-1 fails (Risks is missing) the failing-MUST set is exactly
\* {AC-1}, and with maxIterations = 1 the run ends FAILURE / max_passes
C16_ScenariosAB ==
  (ScenarioRun /\ outcome.kind = "returned" /\ pass.complete /\ run.iteration = 1) =>
     /\ VerdictOf("AC-1").status = "pass" =>
          run.status = "SUCCESS" /\ run.failing = {}
     /\ VerdictOf("AC-1").status = "fail" =>
          /\ run.failing = {"AC-1"}
          /\ (maxIterations = 1 /\ run.status # "RUNNING") =>
               run.status = "FAILURE" /\ run.reason = "max_passes"


\* the criterion a verdict of the pass is about
CriterionOf(e) == ValueOf(outcome.spec).acceptance[e.index]

\* the verdicts of the pass that come from a call of validate
Dispatched == {e \in pass.verdicts : e.validator # ""}

\* the store holds, at the fixed location of this criterion, a record
\* written during the iteration the pass belongs to
HasEvidence(acId) ==
  \E rec \in store.evidence :
    rec.uri = evidenceUriFor(acId) /\ rec.writtenIn = store.clock

\* C17: a validate that throws gives its criterion a fail verdict that
\* carries the error; the exception never leaves the pass (the run is never
\* ended by it), and when the loop body goes on every criterion of the
\* contract has its verdict and the run is where the termination law, fed
\* with the fail verdicts of the MUST criteria, puts it
C17_ValidatorErrorsContained ==
  /\ run.status # "TypeError"
  /\ \A e \in pass.verdicts : e.error => e.status = "fail"
  /\ (outcome.kind = "returned" /\ pass.complete) =>
       /\ {e.index : e \in pass.verdicts} = 1..Len(ValueOf(outcome.spec).acceptance)
       /\ run.failing = failingMust(pass.verdicts)
       /\ run.status = "SUCCESS" <=> failingMust(pass.verdicts) = {}

\* a schema criterion without targets made validate throw, the structure
\* criterion AC-1 passed all the same, and the run ended SUCCESS
C17_Witness ==
  /\ pass.complete
  /\ \E e \in pass.verdicts :
       e.error /\ e.validator = "schema.jsonSchema" /\ e.status = "fail"
  /\ \E e \in pass.verdicts : e.acId = "AC-1" /\ e.status = "pass" /\ ~e.error
  /\ run.status = "SUCCESS"

\* C18: on a store that accepts every write, once an iteration is complete
\* every criterion that was dispatched to a validator in it has, at
\* sdlaf-exports/evidence/<acId>.txt, a record written in that iteration,
\* whatever its verdict (pass, fail, skip, or fail by a validator error)
C18_AuditTrail ==
  (outcome.kind = "returned" /\ pass.complete /\ store.failure = "none") =>
     \A e \in Dispatched : HasEvidence(e.acId)

\* the threshold handed to the judge: ac.rule.passThreshold ?? 4
PassThreshold(ac) ==
  IF IsSet(ac.rule.passThreshold) THEN ValueOf(ac.rule.passThreshold) ELSE 4

\* the verdicts of rubric criteria scored by the rubric validator
RubricVerdicts ==
  {e \in Dispatched : e.validator = "rubric.aiJudge" /\ CriterionOf(e).type = "rubric"}

\* what C19 says of one verdict of the rubric validator
RubricVerdictAsSpecified(e) ==
  /\ ~call.ctx.aiJudge => e.status = "skip" /\ ~e.error /\ HasEvidence(e.acId)
  /\ (call.ctx.aiJudge /\ IsSet(call.ctx.judged)) =>
       (e.status = "pass" <=> ValueOf(call.ctx.judged) >= PassThreshold(CriterionOf(e)))

KnownSignals == DOMAIN SignalField

\* C20: a verdict of the provenance validator is pass iff the context has a
\* signal map in which every required name is true, a name the map does
\* not know counting as not true and an empty list passing; without a
\* signal map it is fail, never skip
C20_ProvenanceVerdict ==
  outcome.kind = "returned" =>
    \A e \in {x \in Dispatched : x.validator = "provenance.requiredFields" /\ ~x.error} :
      LET required == Range(CriterionOf(e).rule.require) IN
      /\ e.status = "pass" <=>
           /\ call.ctx.provenanceSignals
           /\ \A r \in required :
                r \in KnownSignals /\ call.ctx.signals[SignalField[r]]
      /\ ~call.ctx.provenanceSignals => e.status = "fail"


\* the registered validators that support the criterion's type and whose
\* readiness predicate returns true for it, by position
Ready(ac, spec) ==
  {i \in 1..Len(call.registry) :
     /\ ac.type \in call.registry[i].supportedTypes
     /\ canValidate(call.registry[i], ac, spec, call.ctx) = "true"}

\* the id of the first of them, "" when there is none
FirstReady(ac, spec) ==
  IF Ready(ac, spec) = {} THEN ""
  ELSE call.registry[CHOOSE i \in Ready(ac, spec) : \A k \in Ready(ac, spec) : i <= k].id

\* C22: a criterion that names no validator is scored by the first
\* validator, in registration order, that supports its type and whose
\* readiness predicate returns true; a predicate that throws counts as
\* false: it ends neither the integrity pass (which reports
\* UNVERIFIABLE_MUST only for a criterion no candidate accepts) nor the run,
\* and does not hide a later validator that accepts
C22_DispatchFirstReady ==
  /\ run.status # "TypeError"
  /\ outcome.kind = "thrown" =>
       \A k \in 1..Len(outcome.issues) :
         outcome.issues[k].code = "UNVERIFIABLE_MUST" =>
           LET spec == Injected(call.inputSpec, call.opts) IN
           Ready(spec.acceptance[outcome.issues[k].at[1] + 1], spec) = {}
  /\ outcome.kind = "returned" =>
       \A e \in pass.verdicts :
         CriterionOf(e).rule.adapter = "" =>
           e.validator = FirstReady(CriterionOf(e), ValueOf(outcome.spec))

\* the first registered validator supports structure criteria and its
\* readiness predicate throws; AC-1 was scored by the structure validator
\* registered after it, and the run came to its end
C22_Witness ==
  /\ call.registry[1].canValidate = "throws"
  /\ "structure" \in call.registry[1].supportedTypes
  /\ outcome.kind = "returned"
  /\ pass.complete
  /\ \E e \in pass.verdicts :
       e.acId = "AC-1" /\ e.validator = "structure.requiredSections" /\ e.status = "pass"
  /\ run.status = "SUCCESS"


\* C23: whenever a criterion whose rule names a validator id comes to be
\* dispatched, that id is registered
C23_NamedValidatorRegistered ==
  outcome.kind = "returned" =>
    \A e \in pass.verdicts :
      CriterionOf(e).rule.adapter # "" =>
        \E v \in Range(call.registry) : v.id = CriterionOf(e).rule.adapter


\* the failing-MUST set of the iteration under evaluation as the contract,
\* the context, the registry and the outputs determine it, whatever the
\* order in which the criteria are scored
FailingOfIteration ==
  LET spec == ValueOf(outcome.spec) IN
  failingMust({evaluateCriterion(i, spec, call.ctx, call.registry,
                                 [store EXCEPT !.clock = run.t + 1]).result :
                 i \in 1..Len(spec.acceptance)})

\* C24: the criteria of an iteration are scored in any order, and the
\* iteration is decided (SUCCESS, FAILURE or a history snapshot) only when
\* every criterion has its verdict, on the failing-MUST set of the complete
\* result set, which does not depend on the order
C24_DecisionOnCompleteResults ==
  [][(run'.iteration # run.iteration \/ run'.history # run.history
        \/ (run.status = "RUNNING" /\ run'.status \in {"SUCCESS", "FAILURE"}
              /\ run'.reason # "max_passes")) =>
       /\ ~pass.complete
       /\ Scored = 1..Len(ValueOf(outcome.spec).acceptance)
       /\ run'.failing = FailingOfIteration
       /\ run'.failing = failingMust(pass.verdicts)
       /\ run'.history # run.history =>
            run'.history[Len(run'.history)].failingMust = FailingOfIteration]_vars

\* a run of a contract with two criteria: the first iteration failed a MUST
\* criterion and left its snapshot, the second one ended the run in SUCCESS
C24_Witness ==
  /\ pass.started
  /\ pass.complete
  /\ Cardinality(pass.verdicts) = 2
  /\ run.iteration = 2
  /\ Len(run.history) = 1
  /\ run.history[1].failingMust # {}
  /\ run.status = "SUCCESS"


\* the evidence locations the validation of criterion i of the iteration
\* under evaluation writes
WrittenBy(i) ==
  {rec.uri : rec \in evaluateCriterion(i, ValueOf(outcome.spec), call.ctx, call.registry,
                                       [store EXCEPT !.evidence = {},
                                                     !.clock = run.t + 1]).store.evidence}

HistoryAppendOnly ==
  /\ Len(run'.history) <= Len(run.history) + 1
  /\ Len(run.history) <= Len(run'.history)
  /\ SubSeq(run'.history, 1, Len(run.history)) = run.history
  /\ \A i \in 1..Len(run'.history) : run'.history[i].iteration = i
  /\ run'.history # run.history =>
       run'.history[Len(run'.history)] = Snapshot(run'.iteration, run'.failing)
  /\ run'.iteration \in {run.iteration, run.iteration + 1}

C27_OnlySpecIntegrityError ==
  Done =>
    \/ outcome.kind = "returned" /\ IsSet(outcome.spec)
    \/ /\ outcome.kind = "thrown"
       /\ \E k \in 1..Len(outcome.issues) : outcome.issues[k].severity = "error"


(* ------------------- injection of the universal defaults -------------- *)

\* the acIds the caller's contract declares
Declared == {ac.acId : ac \in Range(call.inputSpec.acceptance)}

\* the criterion with this acId in the contract after injection
InjectedCriterion(acId) ==
  LET acc == Injected(call.inputSpec, call.opts).acceptance IN
  acc[CHOOSE n \in 1..Len(acc) : acc[n].acId = acId]

\* the position (from 0) at which AC-UNIV-PROV-1 is injected: after the
\* declared criteria and the universal defaults injected before it
PositionOfProvenanceDefault ==
  Len(call.inputSpec.acceptance)
  + Cardinality({"AC-UNIV-STRUCT-1", "AC-UNIV-TRACE-1", "AC-UNIV-CONSIST-1"} \ Declared)

\* C28: with injection and MUST coverage both enabled, a contract that
\* declares neither AC-UNIV-STRUCT-1 nor AC-UNIV-PROV-1 passes only if the
\* registry holds a structure and a provenance validator that accept the
\* injected criteria; with the default registry and a context without
\* provenance signals the pass fails with UNVERIFIABLE_MUST for
\* AC-UNIV-PROV-1
C28_DefaultsNeedValidators ==
  (/\ Done
   /\ Enabled(call.opts.injectUniversalDefaults)
   /\ Enabled(call.opts.requireMustCoverage)
   /\ "AC-UNIV-STRUCT-1" \notin Declared
   /\ "AC-UNIV-PROV-1" \notin Declared) =>
    /\ outcome.kind = "returned" =>
         \A acId \in {"AC-UNIV-STRUCT-1", "AC-UNIV-PROV-1"} :
           \E v \in Supporting(InjectedCriterion(acId)) :
             canValidate(v, InjectedCriterion(acId),
                         Injected(call.inputSpec, call.opts), call.ctx) = "true"
    /\ (call.registry = DefaultRegistry /\ ~call.ctx.provenanceSignals) =>
         /\ outcome.kind = "thrown"
         /\ HasIssueAt("error", "UNVERIFIABLE_MUST", PositionOfProvenanceDefault, 0)


UniversalIds == {"AC-UNIV-STRUCT-1", "AC-UNIV-TRACE-1", "AC-UNIV-CONSIST-1", "AC-UNIV-PROV-1"}

\* the positions of the criteria with this acId in the returned contract
PositionsOf(acId) ==
  {n \in 1..Len(ValueOf(outcome.spec).acceptance) :
     ValueOf(outcome.spec).acceptance[n].acId = acId}

\* C29: injection goes by acId alone: in the returned contract the declared
\* criteria stand unchanged at their positions, a universal default whose
\* id is declared is not injected, whatever the declared criterion's type,
\* severity, targets and rule, and every other universal default is
\* injected once
C29_InjectionByIdOnly ==
  (outcome.kind = "returned" /\ Enabled(call.opts.injectUniversalDefaults)) =>
    /\ IsPrefix(call.inputSpec.acceptance, ValueOf(outcome.spec).acceptance)
    /\ \A acId \in UniversalIds :
         /\ Cardinality(PositionsOf(acId)) = 1
         /\ acId \in Declared <=>
              PositionsOf(acId) \subseteq 1..Len(call.inputSpec.acceptance)

\* a contract that declares AC-UNIV-PROV-1 as a SHOULD criterion of type
\* custom was returned with injection enabled: the declared criterion is
\* the only one of that id, and the other three defaults were appended
C29_Witness ==
  /\ outcome.kind = "returned"
  /\ Enabled(call.opts.injectUniversalDefaults)
  /\ "AC-UNIV-PROV-1" \in Declared
  /\ Len(ValueOf(outcome.spec).acceptance) = 4
  /\ ValueOf(outcome.spec).acceptance[1].acId = "AC-UNIV-PROV-1"
  /\ ValueOf(outcome.spec).acceptance[1].type = "custom"
  /\ ValueOf(outcome.spec).acceptance[1].severity = "should"


\* the rubrics injectDefaultRubrics supplies
DefaultRubricIds == {"RUBRIC-OVERALL-v1", "RUBRIC-CLARITY-v1"}

\* the outcome of the same call with injection switched off
OutcomeWithoutInjection ==
  specIntegrityPass(call.inputSpec, call.ctx, call.registry,
                    [call.opts EXCEPT !.injectUniversalDefaults = Some(FALSE)])

\* C30: rubric references are checked against the rubrics the caller
\* declared, before the default rubrics are injected: a criterion or a gate
\* approval that refers to a default rubric the contract does not declare
\* makes the pass fail with RUBRIC_REF_MISSING / GATE_RUBRIC_REF_MISSING,
\* with injection enabled too; and a contract that fails without injection
\* does not pass with it
C30_RubricRefsCheckedBeforeInjection ==
  Done =>
    /\ \A i \in 1..Len(call.inputSpec.acceptance) :
         call.inputSpec.acceptance[i].rule.rubricRef
           \in DefaultRubricIds \ RubricSet(call.inputSpec) =>
             /\ outcome.kind = "thrown"
             /\ HasIssueAt("error", "RUBRIC_REF_MISSING", i - 1, 0)
    /\ \A i \in 1..Len(call.inputSpec.gates) :
         \A j \in 1..Len(call.inputSpec.gates[i].requiredApprovals) :
           call.inputSpec.gates[i].requiredApprovals[j].rubricId
             \in DefaultRubricIds \ RubricSet(call.inputSpec) =>
               /\ outcome.kind = "thrown"
               /\ HasIssueAt("error", "GATE_RUBRIC_REF_MISSING", i - 1, j - 1)
    /\ OutcomeWithoutInjection.kind # "returned" => outcome.kind # "returned"

====
